---- MODULE Spec2Model ----
(***************************************************************************)
(* A model of AliTVSTree (src/src/pixels/kdtree/index.js): the facade over *)
(* a KD-tree index of polylines, its filtered queries (getPixelData) and   *)
(* its density renderer (render).                                          *)
(*                                                                         *)
(* Indices are 0-based as in the JavaScript; At(line, i) reads line[i].    *)
(* KDTree (./kdtree), getClosestPointOnLines and brensenhamArr (./util)    *)
(* and mix are not part of index.js; they are modelled from the            *)
(* specification and kept apart from the code of index.js.                 *)
(***************************************************************************)
EXTENDS Integers, Sequences, FiniteSets, TLC

\* ------------------------------------------------------------------ bounds
\* Largest x and y coordinate of a data point.
MaxX == 2
MaxY == 2
\* Most points of one polyline, most polylines of one data set.
MaxPts == 3
MaxLines == 2
\* Render: the largest pixel coordinate of the data, the largest width and
\* height of the surface, the most lines of a data set.
MaxPix == 1
MaxDim == 3
MaxRenderLines == 2

\* --------------------------------------------------------- extended numbers
\* A JavaScript number as far as the queries need it: <<-1, 0>> is -Infinity,
\* <<1, 0>> is Infinity and <<0, v>> the finite integer v.
Fin(v) == <<0, v>>
NegInf == <<-1, 0>>
PosInf == <<1, 0>>
\* a < b and a > b of two such numbers.
NumLt(a, b) == \/ a[1] < b[1]
               \/ a[1] = 0 /\ b[1] = 0 /\ a[2] < b[2]
NumGt(a, b) == NumLt(b, a)
NumGe(a, b) == ~NumLt(a, b)
NumLe(a, b) == ~NumLt(b, a)

\* ------------------------------------------------------------------- data
Points == [x : 0..MaxX, y : 0..MaxY]
At(line, i) == line[i + 1]
\* The caller's contract of the binary searches: x ascends along a line.
Ascending(line) == \A i \in 1..(Len(line) - 1) : line[i].x <= line[i + 1].x
Lines == {l \in UNION {[1..n -> Points] : n \in 0..MaxPts} : Ascending(l)}
\* A data set: at most MaxLines lines holding at most MaxPts points together.
RECURSIVE TotalPts(_)
TotalPts(data) ==
  IF Len(data) = 0 THEN 0 ELSE Len(Head(data)) + TotalPts(Tail(data))
DataSets == {d \in UNION {[1..n -> Lines] : n \in 0..MaxLines} : TotalPts(d) <= MaxPts}
\* The identities of the lines of a data set: 0 .. length-1.
Ids(data) == 0..(Len(data) - 1)

\* Windows and angle bounds a caller may pass.  Angles are in milliradians:
\* 785 is atan(1) = pi/4, 1571 is pi/2.
XWin == 0..MaxX
YWin == 0..MaxY
AngleBounds == {-785, 784, 785}
\* The windows [low, high] of the brushes, and the angle windows.
XWindows == {w \in XWin \X XWin : w[1] <= w[2]}
YWindows == {w \in YWin \X YWin : w[1] <= w[2]}
AngleWindows == {w \in AngleBounds \X AngleBounds : w[1] <= w[2]}
\* The value lists of an "attr" filter.
AttrValues == {{}, {0}, XWin \cup YWin}
\* The optional post-filter callback: absent, or one that keeps the lines
\* that have points.
Filters == {"none", "hasPoints"}

VARIABLES
  raw,          \* this._raw: the data set, a sequence of lines
  mixInScope,   \* whether the free identifier mix resolves when it is called
  call,         \* the last query: its name and arguments
  res,          \* its outcome: err (it threw) or the identities returned
  xRange,       \* this._xScale.range
  yRange,       \* this._yScale.range
  cache,        \* this._slopePixelCache: built, its size and its cells
  builds,       \* how many times render has built an accumulator
  last,         \* the last render call and what it produced
  prev          \* the render call before it

vars == <<raw, mixInScope, call, res, xRange, yRange, cache, builds, last, prev>>
queryVars == <<raw, mixInScope, call, res>>
renderVars == <<xRange, yRange, cache, builds, last, prev>>

\* ------------------------------------------------- the refinement of a brush
\* while (l <= r) { mid = (l + r) >> 1; if (line[mid].x >= minX) { lp = mid;
\* r = mid - 1 } else l = mid + 1 }
RECURSIVE LowerSearch(_, _, _, _, _)
LowerSearch(line, minX, l, r, lp) ==
  IF l > r THEN lp
  ELSE LET mid == (l + r) \div 2
       IN IF NumGe(Fin(At(line, mid).x), minX)
          THEN LowerSearch(line, minX, l, mid - 1, mid)
          ELSE LowerSearch(line, minX, mid + 1, r, lp)

\* while (l <= r) { mid = (l + r) >> 1; if (line[mid].x <= maxX) { rp = mid;
\* l = mid + 1 } else r = mid - 1 }
RECURSIVE UpperSearch(_, _, _, _, _)
UpperSearch(line, maxX, l, r, rp) ==
  IF l > r THEN rp
  ELSE LET mid == (l + r) \div 2
       IN IF NumLe(Fin(At(line, mid).x), maxX)
          THEN UpperSearch(line, maxX, mid + 1, r, mid)
          ELSE UpperSearch(line, maxX, l, mid - 1, rp)

\* lp and rp as the filter callbacks compute them, both searches starting from
\* l = 0, r = line.length - 1, lp = 0, rp = line.length - 1.
Lp(line, minX) == LowerSearch(line, minX, 0, Len(line) - 1, 0)
Rp(line, maxX) == UpperSearch(line, maxX, 0, Len(line) - 1, Len(line) - 1)

\* mix(a, b, x).y: the y at abscissa x of the straight line through a and b,
\* as the fraction <<numerator, denominator>>.  Every call of the filters has
\* a.x < b.x (a.x < minX <= b.x on the left, a.x <= maxX < b.x on the right).
MixY(a, b, x) ==
  <<a.y * (b.x - a.x) + (b.y - a.y) * (x - a.x), b.x - a.x>>

\* tmpY < minY || tmpY > maxY, for tmpY = q[1] / q[2] with q[2] > 0.
FracOutside(q, minY, maxY) ==
  \/ minY[1] = 1
  \/ minY[1] = 0 /\ q[1] < minY[2] * q[2]
  \/ maxY[1] = -1
  \/ maxY[1] = 0 /\ q[1] > maxY[2] * q[2]

\* line[i].y < minY || line[i].y > maxY
PointOutside_Closed(p, minY, maxY) ==
  NumLe(Fin(p.y), minY) \/ NumGe(Fin(p.y), maxY)
PointOutside(p, minY, maxY) ==
  NumLt(Fin(p.y), minY) \/ NumGt(Fin(p.y), maxY)

\* for (let i = lp; i <= rp; i++) if (outside) return false
InteriorFails_SkipLast(line, lp, rp, minY, maxY) ==
  \E i \in lp..(rp - 1) : PointOutside(At(line, i), minY, maxY)
InteriorFails(line, lp, rp, minY, maxY) ==
  \E i \in lp..rp : PointOutside(At(line, i), minY, maxY)

\* The abscissa each boundary check hands to mix: both pass minX.
LeftCrossX(minX, maxX) == minX
RightCrossX(minX, maxX) == minX

\* The callback given to filter() by "brush-box", "brush-x" and "brush-y"
\* (three copies of one body): "accept" for true, "reject" for false and
\* "throw" when the call of mix raises a ReferenceError.
BrushFilter(line, minX, minY, maxX, maxY, mixOk) ==
  LET n == Len(line)
      lp == Lp(line, minX)
      rp == Rp(line, maxX)
  IN IF InteriorFails(line, lp, rp, minY, maxY) THEN "reject"
     ELSE IF lp # 0 /\ ~mixOk THEN "throw"
     ELSE IF lp # 0 /\ FracOutside(MixY(At(line, lp - 1), At(line, lp),
                                        LeftCrossX(minX, maxX)[2]), minY, maxY)
          THEN "reject"
     ELSE IF rp < n - 1 /\ ~mixOk THEN "throw"
     ELSE IF rp < n - 1 /\ FracOutside(MixY(At(line, rp), At(line, rp + 1),
                                            RightCrossX(minX, maxX)[2]), minY, maxY)
          THEN "reject"
     ELSE "accept"

\* ------------------------------------------------ the refinement of "angular"
RECURSIVE Gcd(_, _)
Gcd(a, b) == IF b = 0 THEN a ELSE Gcd(b, a % b)
Abs(v) == IF v < 0 THEN -v ELSE v

\* Math.atan(p / q) in milliradians for integers p, q >= 1 (rounded to the
\* nearest, which keeps the order of the values below).
AtanPos(p, q) ==
  LET g == Gcd(p, q)
      f == <<p \div g, q \div g>>
  IN CASE f = <<1, 4>> -> 245  [] f = <<1, 3>> -> 322  [] f = <<1, 2>> -> 464
       [] f = <<2, 3>> -> 588  [] f = <<3, 4>> -> 644  [] f = <<1, 1>> -> 785
       [] f = <<4, 3>> -> 927  [] f = <<3, 2>> -> 983  [] f = <<2, 1>> -> 1107
       [] f = <<3, 1>> -> 1249 [] f = <<4, 1>> -> 1326

\* Math.atan(dy / dx) as <<isNaN, milliradians>>.  x - x is +0 in JavaScript,
\* so dy / 0 is Infinity, -Infinity or NaN by the sign of dy.
Atan(dy, dx) ==
  IF dx = 0
  THEN IF dy = 0 THEN <<TRUE, 0>>
       ELSE IF dy > 0 THEN <<FALSE, 1571>> ELSE <<FALSE, -1571>>
  ELSE IF dy = 0 THEN <<FALSE, 0>>
  ELSE IF (dy > 0) = (dx > 0) THEN <<FALSE, AtanPos(Abs(dy), Abs(dx))>>
  ELSE <<FALSE, -AtanPos(Abs(dy), Abs(dx))>>

\* ang < angMin || ang > angMax: false for NaN.
AngOutside(ang, angMin, angMax) ==
  ~ang[1] /\ (ang[2] < angMin \/ ang[2] > angMax)

\* Math.atan((b.y - a.y) / (b.x - a.x))
SegAng(a, b) == Atan(b.y - a.y, b.x - a.x)

\* for (let i = lp; i < rp; i++) if (ang of (i, i + 1) outside) return false
InteriorAngFails(line, lp, rp, angMin, angMax) ==
  \E i \in lp..(rp - 1) :
     AngOutside(SegAng(At(line, i), At(line, i + 1)), angMin, angMax)

\* if (line[l].x > maxX || line[r].x < minX) return false
ExtentMisses(line, minX, maxX) ==
  At(line, 0).x > maxX \/ At(line, Len(line) - 1).x < minX

\* The callback given to filter() by "angular".  line[0] of an empty line is
\* undefined, and reading its x raises a TypeError.
AngularFilter(line, minX, angMin, maxX, angMax) ==
  LET n == Len(line)
      lp == Lp(line, Fin(minX))
      rp == Rp(line, Fin(maxX))
  IN IF n = 0 THEN "throw"
     ELSE IF ExtentMisses(line, minX, maxX) THEN "reject"
     ELSE IF InteriorAngFails(line, lp, rp, angMin, angMax) THEN "reject"
     ELSE IF lp # 0 /\ AngOutside(SegAng(At(line, lp), At(line, lp - 1)),
                                  angMin, angMax)
          THEN "reject"
     ELSE IF rp < n - 1 /\ AngOutside(SegAng(At(line, rp), At(line, rp + 1)),
                                      angMin, angMax)
          THEN "reject"
     ELSE "accept"

\* ------------------------------------------------------------ the KD-tree
\* Arrays of distinct line identities of a data set.
IdArrays(data) ==
  {q \in UNION {[1..n -> Ids(data)] : n \in 0..Len(data)} :
     \A i, j \in 1..Len(q) : i # j => q[i] # q[j]}
\* The index answers with candidates only: brush() and angular() may return
\* any array of line identities (the refinement decides membership), knn(p, 1)
\* the nearest lines, at most one and none of an empty index, rnn() the lines
\* within a radius, in the index's own order.
KdBrush(data) == IdArrays(data)
KdAngular(data) == IdArrays(data)
KdKnn1(data) == IF Len(data) = 0 THEN {<< >>} ELSE {<<i>> : i \in Ids(data)}
KdRnn(data) == IdArrays(data)

\* ------------------------------------------------------------ getPixelData
\* What a call leaves: err when it raised, else ids, the identities of the
\* lines of resultData; verdicts, what a filter callback answered for each
\* candidate it was applied to.
NoVerdicts == [id \in {} |-> "accept"]
Threw == [err |-> TRUE, ids |-> {}, verdicts |-> NoVerdicts]
Returned(ids) == [err |-> FALSE, ids |-> ids, verdicts |-> NoVerdicts]

\* cands.filter(callback), verdict[id] being what the callback does on line
\* id: it is applied to the candidates in order, and the first one it raises
\* on ends the call.
FilterCands(cands, verdict) ==
  LET answers == [i \in 1..Len(cands) |-> verdict[cands[i]]]
      throws == {i \in 1..Len(cands) : answers[i] = "throw"}
      stop == IF throws = {} THEN Len(cands)
              ELSE CHOOSE i \in throws : \A j \in throws : i <= j
  IN [err |-> throws # {},
      ids |-> IF throws # {} THEN {}
              ELSE {cands[i] : i \in {j \in 1..stop : answers[j] = "accept"}},
      verdicts |-> [id \in {cands[i] : i \in 1..stop} |->
                      answers[CHOOSE i \in 1..stop : cands[i] = id]]]

\* point[options.field] of a record with the fields x and y.
Field(p, f) == IF f = "x" THEN p.x ELSE p.y

\* !line.find((point) => !options.values.includes(point[options.field]))
AttrKeeps(line, f, values) ==
  ~\E i \in 1..Len(line) : Field(line[i], f) \notin values

\* if (filter) resultData = resultData.filter((line) => filter(line))
PostFilter(data, r, f) ==
  IF r.err \/ f = "none" THEN r
  ELSE [r EXCEPT !.ids = {id \in r.ids : Len(data[id + 1]) > 0}]

\* switch (options.type) of getPixelData, on the candidates the index gave.
Refine(data, o, cands, mixOk) ==
  CASE o.type = "brush-box" ->
         FilterCands(cands, [id \in Ids(data) |->
           BrushFilter(data[id + 1], Fin(o.lowX), Fin(o.lowY),
                       Fin(o.highX), Fin(o.highY), mixOk)])
    [] o.type = "brush-x" ->
         FilterCands(cands, [id \in Ids(data) |->
           BrushFilter(data[id + 1], Fin(o.lowX), NegInf,
                       Fin(o.highX), PosInf, mixOk)])
    [] o.type = "brush-y" ->
         FilterCands(cands, [id \in Ids(data) |->
           BrushFilter(data[id + 1], NegInf, Fin(o.lowY),
                       PosInf, Fin(o.highY), mixOk)])
    [] o.type = "angular" ->
         FilterCands(cands, [id \in Ids(data) |->
           AngularFilter(data[id + 1], o.lowX, o.lowSlope,
                         o.highX, o.highSlope)])
    [] o.type = "attr" ->
         Returned({id \in Ids(data) : AttrKeeps(data[id + 1], o.field, o.values)})

GetPixelData(data, o, cands, f, mixOk) ==
  PostFilter(data, Refine(data, o, cands, mixOk), f)

\* --------------------------------------------------------------- the queries
NoCall == [op |-> "none"]

PixelCall(o, cands, f) ==
  /\ call' = [op |-> "getPixelData", options |-> o, cands |-> cands, filter |-> f]
  /\ res' = GetPixelData(raw, o, cands, f, mixInScope)
  /\ UNCHANGED <<raw, mixInScope, renderVars>>

BrushBox ==
  /\ call = NoCall
  /\ \E wx \in XWindows, wy \in YWindows, cands \in KdBrush(raw) :
       PixelCall([type |-> "brush-box", lowX |-> wx[1], lowY |-> wy[1],
                  highX |-> wx[2], highY |-> wy[2]], cands, "none")

BrushXQuery ==
  /\ call = NoCall
  /\ \E wx \in XWindows, f \in Filters, cands \in KdBrush(raw) :
       PixelCall([type |-> "brush-x", lowX |-> wx[1], highX |-> wx[2]], cands, f)

BrushYQuery ==
  /\ call = NoCall
  /\ \E wy \in YWindows, f \in Filters, cands \in KdBrush(raw) :
       PixelCall([type |-> "brush-y", lowY |-> wy[1], highY |-> wy[2]], cands, f)

Angular ==
  /\ call = NoCall
  /\ \E wx \in XWindows, wa \in AngleWindows, cands \in KdAngular(raw) :
       PixelCall([type |-> "angular", lowX |-> wx[1], lowSlope |-> wa[1],
                  highX |-> wx[2], highSlope |-> wa[2]], cands, "none")

Attr ==
  /\ call = NoCall
  /\ \E field \in {"x", "y"}, values \in AttrValues, f \in Filters :
       PixelCall([type |-> "attr", field |-> field, values |-> values], << >>, f)

\* getCrossPoints: knn(...)[0].id of an empty answer raises a TypeError; the
\* closest point on the line found is left to getClosestPointOnLines.
GetCrossPoints ==
  /\ call = NoCall
  /\ \E hit \in KdKnn1(raw) :
    /\ call' = [op |-> "getCrossPoints"]
    /\ res' = IF Len(hit) = 0 THEN Threw ELSE Returned({hit[1]})
    /\ UNCHANGED <<raw, mixInScope, renderVars>>

\* q.slice(0, n) for n >= 0
Slice0(q, n) == SubSeq(q, 1, IF n < Len(q) THEN n ELSE Len(q))

\* getHoverLines: rnn(...).slice(0, topN)
GetHoverLines ==
  /\ call = NoCall
  /\ \E hits \in KdRnn(raw), topN \in 0..MaxLines :
    /\ call' = [op |-> "getHoverLines", topN |-> topN]
    /\ res' = Returned({Slice0(hits, topN)[i] : i \in 1..Len(Slice0(hits, topN))})
    /\ UNCHANGED <<raw, mixInScope, renderVars>>

GetSelectedLines ==
  /\ call = NoCall
  /\ \E f \in Filters :
    /\ call' = [op |-> "getSelectedLines", filter |-> f]
    /\ res' = PostFilter(raw, Returned(Ids(raw)), f)
    /\ UNCHANGED <<raw, mixInScope, renderVars>>

\* The caller takes the answer; the facade is ready for the next query.
QueryDone ==
  /\ call # NoCall
  /\ call' = NoCall
  /\ res' = Returned({})
  /\ UNCHANGED <<raw, mixInScope, renderVars>>

NoRender == [op |-> "none"]
NoCache == [built |-> FALSE]

InitQuery ==
  /\ raw \in DataSets
  /\ mixInScope \in BOOLEAN
  /\ call = NoCall
  /\ res = Returned({})
  /\ xRange = <<0, 0>>
  /\ yRange = <<0, 0>>
  /\ cache = NoCache
  /\ builds = 0
  /\ last = NoRender
  /\ prev = NoRender

NextQuery ==
  \/ BrushBox
  \/ BrushXQuery
  \/ BrushYQuery
  \/ Angular
  \/ Attr
  \/ GetCrossPoints
  \/ GetHoverLines
  \/ GetSelectedLines
  \/ QueryDone

SpecQuery == InitQuery /\ [][NextQuery]_vars

\* ================================================================= render
\* Render data: lines of strictly ascending x whose pixels lie in
\* 0..MaxPix x 0..MaxPix, on a surface of MaxPix+1 .. MaxDim pixels a side.
RenderPoints == [x : 0..MaxPix, y : 0..MaxPix]
StrictlyAscending(line) == \A i \in 1..(Len(line) - 1) : line[i].x < line[i + 1].x
RenderLines ==
  {l \in UNION {[1..n -> RenderPoints] : n \in 0..(MaxPix + 1)} : StrictlyAscending(l)}
RenderDataSets == UNION {[1..n -> RenderLines] : n \in 0..MaxRenderLines}
Dims == (MaxPix + 1)..MaxDim
\* The pixel range of the x scale runs up, that of the y scale down.
XRanges == {<<0, w>> : w \in Dims}
YRanges == {<<h, 0>> : h \in Dims}

\* Math.abs(range.reduce((p, v) => p - v))
Extent(range) == Abs(range[1] - range[2])

\* Slopes and weights are kept in units of 1 / SlopeUnit, which makes every
\* (b.y - a.y) / (b.x - a.x) of the render data an integer.
RECURSIVE LcmUpTo(_)
LcmUpTo(n) == IF n <= 1 THEN 1 ELSE LET m == LcmUpTo(n - 1) IN (m * n) \div Gcd(m, n)
SlopeUnit == LcmUpTo(MaxPix)
Slope(a, b) == ((b.y - a.y) * SlopeUnit) \div (b.x - a.x)

\* The pixels an integer-grid line from (x, y) to (x1, y1) touches, in order
\* (Bresenham's algorithm: err starts at dx + dy, with dy negative).
RECURSIVE BresenhamFrom(_, _, _, _, _, _, _, _, _)
BresenhamFrom(x, y, x1, y1, dx, dy, sx, sy, err) ==
  IF x = x1 /\ y = y1 THEN << <<x, y>> >>
  ELSE LET stepX == 2 * err >= dy
           stepY == 2 * err <= dx
       IN << <<x, y>> >> \o
          BresenhamFrom(IF stepX THEN x + sx ELSE x, IF stepY THEN y + sy ELSE y,
                        x1, y1, dx, dy, sx, sy,
                        err + (IF stepX THEN dy ELSE 0) + (IF stepY THEN dx ELSE 0))
Bresenham(a, b) ==
  LET dx == Abs(b.x - a.x)
      dy == -Abs(b.y - a.y)
  IN BresenhamFrom(a.x, a.y, b.x, b.y, dx, dy,
                   IF a.x < b.x THEN 1 ELSE -1, IF a.y < b.y THEN 1 ELSE -1, dx + dy)

\* How often the segments of a line touch a pixel, and the slopes they leave
\* there: brensenhamArr adds the segment's slope to the entry of the line in
\* every cell the segment touches.
SegTouches(a, b, px) ==
  Cardinality({k \in 1..Len(Bresenham(a, b)) : Bresenham(a, b)[k] = px})
RECURSIVE LineTouches(_, _, _)
LineTouches(line, i, px) ==
  IF i >= Len(line) THEN 0
  ELSE SegTouches(line[i], line[i + 1], px) + LineTouches(line, i + 1, px)
RECURSIVE LineSlopes(_, _, _)
LineSlopes(line, i, px) ==
  IF i >= Len(line) THEN 0
  ELSE SegTouches(line[i], line[i + 1], px) * Slope(line[i], line[i + 1])
       + LineSlopes(line, i + 1, px)

\* The accumulator render builds: one cell a pixel, each cell mapping the
\* identities of the lines that touch it to their accumulated slope.
BuildCache(data, width, height) ==
  [built |-> TRUE, width |-> width, height |-> height,
   cells |-> [px \in (0..(width - 1)) \X (0..(height - 1)) |->
                [id \in {k \in Ids(data) : LineTouches(data[k + 1], 1, px) > 0} |->
                   LineSlopes(data[id + 1], 1, px)]]]

\* if (!indices) indices = every line
Indices(data, indices) == IF indices.given THEN indices.ids ELSE Ids(data)
IndexChoices(data) ==
  {[given |-> FALSE, ids |-> {}]} \cup {[given |-> TRUE, ids |-> q] : q \in SUBSET Ids(data)}

RECURSIVE SumOver(_, _)
SumOver(f, keys) ==
  IF keys = {} THEN 0
  ELSE LET k == CHOOSE k \in keys : TRUE IN f[k] + SumOver(f, keys \ {k})

\* One entry of tempBuffer, in units of 1 / SlopeUnit: the slopes of the
\* cell's entries that fastMapping holds, or their number.
Weight_Swapped(cell, ids, normalize) ==
  IF normalize THEN SlopeUnit * Cardinality(DOMAIN cell \cap ids)
  ELSE SumOver(cell, DOMAIN cell \cap ids)
Weight(cell, ids, normalize) ==
  IF normalize THEN SumOver(cell, DOMAIN cell \cap ids)
  ELSE SlopeUnit * Cardinality(DOMAIN cell \cap ids)

Max(S) == CHOOSE v \in S : \A u \in S : u <= v
\* Math.ceil of v / SlopeUnit
CeilUnits(v) == -((-v) \div SlopeUnit)

\* Math.round((w / maxWeight) * 10000) as <<kind, value>>: kind "nan" for
\* 0 / 0, "inf" for +-Infinity (value its sign), "fin" otherwise.  maxWeight
\* 0 stands for the +0 or -0 that Math.ceil gives, told apart by negZero.
Ratio(w, maxWeight, negZero) ==
  IF maxWeight = 0
  THEN IF w = 0 THEN <<"nan", 0>>
       ELSE <<"inf", IF (w > 0) = ~negZero THEN 1 ELSE -1>>
  ELSE LET num == IF maxWeight > 0 THEN w * 10000 ELSE -(w * 10000)
           den == SlopeUnit * Abs(maxWeight)
       IN <<"fin", (2 * num + den) \div (2 * den)>>

\* ratio <= 0 ? 0 : 255
Alpha(ratio) ==
  IF ratio[1] = "nan" THEN 255
  ELSE IF ratio[2] <= 0 THEN 0 ELSE 255

\* render(canvas, colormap, normalize, indices): the accumulator is built when
\* this._slopePixelCache is not set; reading cache[col][row] of a pixel
\* outside the accumulator raises a TypeError.
RenderResult(c, ids, normalize, width, height, built) ==
  IF width > c.width \/ height > c.height
  THEN [op |-> "render", normalize |-> normalize, ids |-> ids, err |-> TRUE,
        built |-> built, width |-> width, height |-> height]
  ELSE LET pixels == (0..(width - 1)) \X (0..(height - 1))
           weights == [px \in pixels |-> Weight(c.cells[px], ids, normalize)]
           top == Max({weights[px] : px \in pixels})
           maxWeight == CeilUnits(top)
       IN [op |-> "render", normalize |-> normalize, ids |-> ids, err |-> FALSE,
           built |-> built, width |-> width, height |-> height,
           weights |-> weights, maxWeight |-> maxWeight,
           alpha |-> [px \in pixels |->
                        Alpha(Ratio(weights[px], maxWeight, top < 0))]]

\* if (!this._slopePixelCache)
NeedsBuild_Always(c) == TRUE
NeedsBuild(c) == ~c.built

\* if (!this._slopePixelCache) { ... this._slopePixelCache = cache }
CacheAfter(c, data, width, height) ==
  IF NeedsBuild(c) THEN BuildCache(data, width, height) ELSE c

Render ==
  /\ call = NoCall
  /\ \E normalize \in BOOLEAN, indices \in IndexChoices(raw) :
       LET width == Extent(xRange)
           height == Extent(yRange)
       IN /\ cache' = CacheAfter(cache, raw, width, height)
          /\ builds' = IF NeedsBuild(cache) THEN builds + 1 ELSE builds
          /\ last' = RenderResult(cache', Indices(raw, indices), normalize,
                                  width, height, NeedsBuild(cache))
          /\ prev' = last
  /\ UNCHANGED <<raw, mixInScope, call, res, xRange, yRange>>

\* The surface is resized: the scales get another pixel range.
Resize ==
  /\ call = NoCall
  /\ \E xr \in XRanges, yr \in YRanges :
       /\ <<xr, yr>> # <<xRange, yRange>>
       /\ xRange' = xr
       /\ yRange' = yr
  /\ UNCHANGED <<raw, mixInScope, call, res, cache, builds, last, prev>>

\* No action of the render specifications calls mix.
InitRender ==
  /\ raw \in RenderDataSets
  /\ mixInScope = TRUE
  /\ call = NoCall
  /\ res = Returned({})
  /\ xRange \in XRanges
  /\ yRange \in YRanges
  /\ cache = NoCache
  /\ builds = 0
  /\ last = NoRender
  /\ prev = NoRender

\* Renders and queries on one facade whose surface keeps its size.
NextRender ==
  \/ Render
  \/ Attr
  \/ GetCrossPoints
  \/ GetHoverLines
  \/ GetSelectedLines
  \/ QueryDone

SpecRender == InitRender /\ [][NextRender]_vars

\* Renders interleaved with resizes of the surface.
NextResize ==
  \/ Render
  \/ Resize

\* The surface sizes matter here, not the number of lines: one line at most.
InitResize ==
  /\ InitRender
  /\ Len(raw) <= 1

SpecResize == InitResize /\ [][NextResize]_vars

\* ===================================================== claims on the queries
IsPixelCall(types) == call.op = "getPixelData" /\ call.options.type \in types
BrushTypes == {"brush-box", "brush-x", "brush-y"}
\* The window of a brush call: "brush-x" has no y bounds, "brush-y" no x bounds.
WinLowX(o) == IF o.type = "brush-y" THEN NegInf ELSE Fin(o.lowX)
WinHighX(o) == IF o.type = "brush-y" THEN PosInf ELSE Fin(o.highX)
WinLowY(o) == IF o.type = "brush-x" THEN NegInf ELSE Fin(o.lowY)
WinHighY(o) == IF o.type = "brush-x" THEN PosInf ELSE Fin(o.highY)
InWinX(p, o) == NumGe(Fin(p.x), WinLowX(o)) /\ NumLe(Fin(p.x), WinHighX(o))
InWinY(p, o) == NumGe(Fin(p.y), WinLowY(o)) /\ NumLe(Fin(p.y), WinHighY(o))
\* The brute-force scan: every point of the line inside the x-window is inside
\* the y-window.
BruteAccepts(line, o) ==
  \A i \in 1..Len(line) : InWinX(line[i], o) => InWinY(line[i], o)
\* Every point of the line is inside the x-window and the y-window.
WhollyInside(line, o) ==
  \A i \in 1..Len(line) : InWinX(line[i], o) /\ InWinY(line[i], o)

\* C1: every line a "brush-box", "brush-x" or "brush-y" call returns has all
\* its points of the x-window inside the y-window, whatever candidates the
\* index gave.
C1_BrushSound ==
  (IsPixelCall(BrushTypes) /\ ~res.err) =>
     \A id \in res.ids : BruteAccepts(raw[id + 1], call.options)

\* C1 witness: a "brush-box" call returned a line that has a point inside the
\* window and a point outside the x-window whose y is outside the y-window.
C1_Witness ==
  /\ IsPixelCall({"brush-box"})
  /\ ~res.err
  /\ \E id \in res.ids :
       /\ \E i \in 1..Len(raw[id + 1]) : InWinX(raw[id + 1][i], call.options)
       /\ \E i \in 1..Len(raw[id + 1]) :
            /\ ~InWinX(raw[id + 1][i], call.options)
            /\ ~InWinY(raw[id + 1][i], call.options)

\* The line has a point inside the rectangle: its geometry intersects it.
Intersects(line, o) ==
  \E i \in 1..Len(line) : InWinX(line[i], o) /\ InWinY(line[i], o)

C7_EmptyDataNoError ==
  (Len(raw) = 0 /\ call.op # "none") => (~res.err /\ res.ids = {})

\* C8: a candidate line of no point or of one point never makes a "brush-box",
\* "brush-x", "brush-y" or "angular" call raise (here even granting that mix
\* resolves).
C8_ShortLinesNeverRaise ==
  (/\ IsPixelCall(BrushTypes \cup {"angular"})
   /\ mixInScope
   /\ \E i \in 1..Len(call.cands) : Len(raw[call.cands[i] + 1]) <= 1)
     => ~res.err

\* A line of one segment whose two points differ; its x-extent meets the
\* x-window of the call; its slope angle lies in the angle window.
OneSegment(line) == Len(line) = 2 /\ line[1] # line[2]
ExtentMeets(line, o) == line[1].x <= o.highX /\ line[Len(line)].x >= o.lowX
SlopeInWindow(line, o) ==
  LET s == SegAng(line[1], line[2])[2]
  IN o.lowSlope <= s /\ s <= o.highSlope

\* C9: an "angular" call returns a candidate line of one segment whose
\* x-extent meets [lowX, highX] exactly when lowSlope <= s <= highSlope, and
\* never a line whose x-extent misses [lowX, highX].
C9_AngularInclusive ==
  IsPixelCall({"angular"}) =>
     \A i \in 1..Len(call.cands) :
        LET id == call.cands[i]
            line == raw[id + 1]
        IN /\ (OneSegment(line) /\ ExtentMeets(line, call.options)) =>
                IF SlopeInWindow(line, call.options)
                THEN ~res.err /\ id \in res.ids
                ELSE id \notin res.ids
           /\ (Len(line) >= 1 /\ ~ExtentMeets(line, call.options)) =>
                id \notin res.ids

\* The first index whose x >= lowX and the last whose x <= highX, when they
\* exist.
HasLpRp(line, o) ==
  /\ \E i \in 1..Len(line) : line[i].x >= o.lowX
  /\ \E i \in 1..Len(line) : line[i].x <= o.highX
FirstGe(line, o) ==
  CHOOSE i \in 1..Len(line) :
     line[i].x >= o.lowX /\ \A j \in 1..(i - 1) : line[j].x < o.lowX
LastLe(line, o) ==
  CHOOSE i \in 1..Len(line) :
     line[i].x <= o.highX /\ \A j \in (i + 1)..Len(line) : line[j].x > o.highX
\* The y of segment (a, b) at abscissa x lies in [lowY, highY], for a.x < b.x.
CrossingInside(a, b, x, o) ==
  LET num == a.y * (b.x - a.x) + (b.y - a.y) * (x - a.x)
  IN o.lowY * (b.x - a.x) <= num /\ num <= o.highY * (b.x - a.x)
\* The acceptance of C10: the points of [lp, rp], the crossing of segment
\* (lp-1, lp) at lowX and the crossing of segment (rp, rp+1) at highX all lie
\* in [lowY, highY].
CrossingsAccept(line, o) ==
  LET lp == FirstGe(line, o)
      rp == LastLe(line, o)
  IN /\ \A i \in lp..rp : InWinY(line[i], o)
     /\ lp > 1 => CrossingInside(line[lp - 1], line[lp], o.lowX, o)
     /\ rp < Len(line) => CrossingInside(line[rp], line[rp + 1], o.highX, o)

\* C10: the "brush-box" refinement accepts a candidate line exactly when the
\* points of [lp, rp], the left crossing at x = lowX and the right crossing at
\* x = highX lie within [lowY, highY] (here granting that mix resolves).
C10_BoundaryCrossings ==
  (IsPixelCall({"brush-box"}) /\ mixInScope) =>
     \A id \in DOMAIN res.verdicts :
        HasLpRp(raw[id + 1], call.options) =>
           (res.verdicts[id] = "accept" <=> CrossingsAccept(raw[id + 1], call.options))

\* ======================================================= claims on render
IsRender(r) == r.op = "render"
RenderOk(r) == IsRender(r) /\ ~r.err

\* C3: over renders and queries on one facade the accumulator is built at most
\* once, by the first render; every later render leaves it as it is, and no
\* query step builds or changes the accumulator or the raw data.
C3_BuiltAtMostOnce ==
  [][/\ builds' <= 1
     /\ raw' = raw
     /\ (cache.built => cache' = cache)
     /\ (cache' # cache => ~IsRender(last) /\ IsRender(last') /\ last'.built)
     /\ (IsRender(last) /\ last' # last => ~last'.built)
     /\ (call' # call => cache' = cache /\ builds' = builds)]_vars

\* A second render has reused the accumulator the first one built, and a
\* query is in flight.
C3_Witness ==
  /\ builds = 1
  /\ IsRender(prev) /\ prev.built
  /\ IsRender(last) /\ ~last.built
  /\ cache.built
  /\ call # NoCall

\* C4: whenever a render has read the accumulator, the accumulator has the
\* width and height the scales' ranges gave at that render, and the render
\* completed.
C4_CacheMatchesSurface ==
  IsRender(last) =>
    /\ ~last.err
    /\ cache.width = last.width
    /\ cache.height = last.height

\* C5: of two consecutive count renders (normalize = false) on one
\* accumulator, the one with the smaller index set has, at every pixel, a
\* weight no larger than the other's, and no larger a maxWeight.
C5_SubsetMonotone ==
  (/\ RenderOk(prev) /\ RenderOk(last)
   /\ ~prev.normalize /\ ~last.normalize
   /\ prev.ids \subseteq last.ids)
  => /\ \A px \in DOMAIN prev.weights : prev.weights[px] <= last.weights[px]
     /\ prev.maxWeight <= last.maxWeight

\* A count render of one line followed by a count render of two lines that
\* share a pixel.
C5_Witness ==
  /\ RenderOk(prev) /\ RenderOk(last)
  /\ ~prev.normalize /\ ~last.normalize
  /\ prev.ids \subseteq last.ids /\ prev.ids # last.ids
  /\ \E px \in DOMAIN prev.weights :
       0 < prev.weights[px] /\ prev.weights[px] < last.weights[px]

\* C6: every render writes alpha 0 at the pixels of weight <= 0 and alpha 255
\* at all others.
C6_AlphaByWeight ==
  RenderOk(last) =>
    \A px \in DOMAIN last.alpha :
      last.alpha[px] = (IF last.weights[px] <= 0 THEN 0 ELSE 255)

====
